---- MODULE Spec2Model ----
(***************************************************************************)
(* A model of the cooperating state machines of the voice agent:           *)
(*   - RealtimeChat (src/src/utils/RealtimeAudio.ts): the realtime session *)
(*     that owns the socket, the recorder, the heartbeat, the connection   *)
(*     timeout and the reconnect logic;                                    *)
(*   - DIDClient (src/unnamed/part_005): the avatar speech dispatcher;     *)
(*   - useNetworkQuality (src/unnamed/part_003): the network monitor.      *)
(* JavaScript runs every callback to its next await; each action below is  *)
(* one such run-to-completion step.                                        *)
(***************************************************************************)
EXTENDS Integers, Sequences, FiniteSets, TLC

VARIABLES
  \* ---- RealtimeChat fields
  ws,                      \* this.ws: 0 (null) or the index of a socket
  recorder,                \* this.recorder: 0 (null) or the index of a recorder
  isRecording,             \* this.isRecording
  reconnectAttempts,       \* this.reconnectAttempts
  isIntentionalDisconnect, \* this.isIntentionalDisconnect
  pingInterval,            \* this.pingInterval is armed
  connectionTimeout,       \* the timeout this.connectionTimeout holds is pending
  stale,                   \* Date.now() - this.lastPongTime > 30000
  \* ---- objects and pending asynchronous steps of RealtimeChat
  sockState,               \* readyState of every WebSocket created so far
  sentLog,                 \* per socket: the kinds sent on it, in first-send order
  recState,                \* per socket: the AudioRecorder its onopen created:
                           \* "none", "starting" (getUserMedia pending),
                           \* "running" (stream held), "off" (no stream)
  orphanTimeouts,          \* pending timeouts whose handle was overwritten
  initsPending,            \* init() calls awaiting the credential fetch
  backoffsPending,         \* attemptReconnect() calls in their backoff delay
  \* ---- what the callbacks and the caller have seen (history)
  nInits,                  \* init() invocations so far
  lastStatus,              \* the latest status given to onStatusChange
  errCount,                \* onError calls so far (MaxErrSeen: that many or more)
  lastMuted,               \* argument of the latest setMuted: "none", "true", "false"
  audioSettings,           \* this.audioSettings: the tuning it holds
  sentConfig,              \* per socket: the tuning of every session.update sent on it
  created,                 \* per socket: its session.created event has been delivered
  lastText,                \* outcome of the latest sendTextMessage: "none", "sent", "threw"
  passedThrough,           \* callbacks.onMessage has been given an event of a kind
                           \* handleEvent has no case for
  transcriptionFailed,     \* an inbound transcription-failure event has been handled
  reinits,                 \* init() calls made by attemptReconnect since the latest
                           \* socket open or init() call of the caller
  \* ---- DIDClient fields
  connected,               \* streamId and sessionId are set
  isSpeaking,              \* this.isSpeaking
  isProcessingQueue,       \* this.isProcessingQueue
  speakQueue,              \* this.speakQueue
  speechDisabled,          \* this.speechDisabledReason is set
  \* ---- pending asynchronous steps of DIDClient and its history
  chains,                  \* the processSpeak() calls in progress
  backendLog,              \* texts of the backend 'speak' calls, in order
  inFlight,                \* texts sent to the backend whose speaking-end is pending
  nSpeaks,                 \* speak() calls so far; a text is its call number
  result,                  \* per text: what its speak() call returns
  whileSpeaking,           \* every speak() after the first found isSpeaking set
  anyFail,                 \* a backend 'speak' call failed or threw
  everDisc,                \* DIDClient.disconnect() has been called
  \* ---- useNetworkQuality
  online,                  \* navigator.onLine
  mounted,                 \* the hook is mounted: its effect has run
  netInfo,                 \* the networkInfo state of the hook
  probesPending,           \* updateNetworkInfo() calls awaiting measureLatency
  \* ---- the audio codec (encodeAudioForAPI, decodeAudioFromAPI)
  codecPc,                 \* "idle", "captured", "encoded", "decoded"
  samples,                 \* the captured Float32Array, in units of 1/SampleScale
  encoded,                 \* the base64 string, as its digits (64 is the pad '=')
  decoded,                 \* the bytes decodeAudioFromAPI returns
  \* ---- AvatarVideoCall (the conversation orchestrator)
  callStatus,              \* status: "disconnected", "connecting", "connected"
  callProcessing,          \* isProcessing: a reply is being fetched and spoken
  avatarSpeaking,          \* isSpeaking
  quiet,                   \* seconds since the avatar stopped speaking (MaxQuiet:
                           \* that long or longer, or it has not spoken yet)
  userTurns,               \* user messages logged (MaxTurns: that many or more)
  \* ---- the heartbeat of RealtimeChat, with its clock
  hbArmed,                 \* the interval this.pingInterval holds is running
  sinceActivity,           \* Date.now() - this.lastPongTime, in seconds (MaxIdle:
                           \* that long or longer)
  sinceTick,               \* seconds since the interval was set or fired last
  lastTick,                \* what the latest tick did: "none", "nothing",
                           \* "attemptReconnect"
  \* ---- the backoff wait of attemptReconnect
  boAttempts,              \* this.reconnectAttempts
  delay,                   \* the delay of the latest wait, in ms (0: no wait yet)
  jitter,                  \* the jitter of the latest wait, in ms
  \* ---- retryWithBackoff
  rtPc,                    \* "idle", "calling" (awaiting fn), "waiting" (the
                           \* delay), "returned", "rejected"
  maxRetries,              \* its arguments
  baseDelay,
  maxDelay,
  attempt,                 \* the loop variable
  calls,                   \* calls of fn so far; a call's number names its
                           \* result or its error
  lastError,               \* lastError: the call whose error it holds (0: null)
  returned,                \* the call whose result was returned (0: none)
  retryDelay,              \* delay and jitter of the latest wait, in ms
  retryJitter,
  \* ---- the speaking duration DIDClient.processSpeak waits
  wordCount,               \* words of the text spoken last (-1: none yet)
  durationMs,              \* durationMs for it, in units of 1/DurationScale ms
  prevWordCount,           \* the same for the text spoken before it
  prevDurationMs

chatVars == <<ws, recorder, isRecording, reconnectAttempts, isIntentionalDisconnect,
              pingInterval, connectionTimeout, stale, sockState, sentLog,
              recState, orphanTimeouts, initsPending, backoffsPending, nInits,
              lastStatus, errCount, lastMuted, audioSettings, sentConfig, created,
              lastText>>

didVars == <<connected, isSpeaking, isProcessingQueue, speakQueue, speechDisabled,
             chains, backendLog, inFlight, nSpeaks, result, whileSpeaking, anyFail,
             everDisc>>

netVars == <<online, mounted, netInfo, probesPending>>

codecVars == <<codecPc, samples, encoded, decoded>>

callVars == <<callStatus, callProcessing, avatarSpeaking, quiet, userTurns>>

hbVars == <<hbArmed, sinceActivity, sinceTick, lastTick>>

boVars == <<boAttempts, delay, jitter>>

eventsSeen == <<passedThrough, transcriptionFailed>>

rtVars == <<rtPc, maxRetries, baseDelay, maxDelay, attempt, calls, lastError,
            returned, retryDelay, retryJitter>>

durVars == <<wordCount, durationMs, prevWordCount, prevDurationMs>>

vars == <<chatVars, eventsSeen, reinits, didVars, netVars, codecVars, callVars,
          hbVars, boVars, rtVars, durVars>>

otherVars == <<didVars, netVars, codecVars, callVars, hbVars, boVars, rtVars, durVars>>
notChatVars == <<eventsSeen, reinits, otherVars>>
notDidVars == <<chatVars, eventsSeen, reinits, netVars, codecVars, callVars, hbVars,
                boVars, rtVars,
                durVars>>
notNetVars == <<chatVars, eventsSeen, reinits, didVars, codecVars, callVars, hbVars,
                boVars, rtVars,
                durVars>>
notCodecVars == <<chatVars, eventsSeen, reinits, didVars, netVars, callVars, hbVars,
                  boVars, rtVars,
                  durVars>>
notCallVars == <<chatVars, eventsSeen, reinits, didVars, netVars, codecVars, hbVars,
                 boVars, rtVars,
                 durVars>>
notHbVars == <<chatVars, eventsSeen, reinits, didVars, netVars, codecVars, callVars,
              boVars, rtVars,
               durVars>>
notBoVars == <<chatVars, eventsSeen, reinits, didVars, netVars, codecVars, callVars,
              hbVars, rtVars,
               durVars>>
notDurVars == <<chatVars, eventsSeen, reinits, didVars, netVars, codecVars, callVars,
               hbVars, boVars, rtVars>>
notRtVars == <<chatVars, eventsSeen, reinits, didVars, netVars, codecVars, callVars,
              hbVars, boVars,
               durVars>>

(***************************************************************************)
(* Bounds of the model.                                                    *)
(***************************************************************************)
MaxInits == 2
MaxFailInits == 7
MaxAttempts == 2
MaxFailAttempts == 6
MaxErrSeen == 2
MaxSpeaks == 4
MaxProbes == 2
MaxSamples == 2
MaxQuiet == 11
MaxTurns == 2
MaxIdle == 41
RandomSteps == 100
MaxWords == 60

(***************************************************************************)
(* Program constants.                                                      *)
(***************************************************************************)
maxReconnectAttempts == 5
\* the period of the heartbeat interval and the age of this.lastPongTime beyond
\* which a tick reconnects, in ms
HeartbeatPeriod == 10000
StaleAfter == 30000

Sockets == 1..Len(sockState)

(***************************************************************************)
(*                         RealtimeChat                                    *)
(***************************************************************************)
InitChat ==
  /\ ws = 0
  /\ recorder = 0
  /\ isRecording = FALSE
  /\ reconnectAttempts = 0
  /\ isIntentionalDisconnect = FALSE
  /\ pingInterval = FALSE
  /\ connectionTimeout = FALSE
  /\ stale = FALSE
  /\ sockState = <<>>
  /\ sentLog = <<>>
  /\ recState = <<>>
  /\ orphanTimeouts = 0
  /\ initsPending = 0
  /\ backoffsPending = 0
  /\ nInits = 0
  /\ lastStatus = "none"
  /\ errCount = 0
  /\ lastMuted = "none"
  /\ audioSettings = "good"
  /\ sentConfig = <<>>
  /\ created = <<>>
  /\ lastText = "none"
  /\ passedThrough = FALSE
  /\ transcriptionFailed = FALSE
  /\ reinits = 0

\* callbacks.onError: one more call is counted
CountErr(n) == IF n < MaxErrSeen THEN n + 1 ELSE n

\* callbacks.onStatusChange(s)
Report(s) ==
  lastStatus' = s

\* WebSocket.close() on socket w of the socket states ss (w = 0: this.ws is null)
ClosedBy(ss, w) ==
  IF w # 0 /\ ss[w] \in {"connecting", "open"}
  THEN [ss EXCEPT ![w] = "closing"]
  ELSE ss

\* AudioRecorder.stop() on recorder r: it releases the stream it holds; a
\* recorder whose getUserMedia is still pending holds none yet, and stays as it is
StoppedRec(rs, r) ==
  IF r # 0 /\ rs[r] = "running"
  THEN [rs EXCEPT ![r] = "off"]
  ELSE rs

\* RealtimeChat.stopRecording
StopRecording ==
  /\ isRecording' = FALSE
  /\ recState' = StoppedRec(recState, recorder)
  /\ recorder' = 0

\* RealtimeChat.clearConnectionTimeout
ClearConnectionTimeout == connectionTimeout' = FALSE

\* the synchronous part of RealtimeChat.attemptReconnect, up to its await;
\* ss is the socket states as the calling handler left them, maxA the bound of
\* the model on the attempt counter
AttemptReconnect(ss, maxA) ==
  /\ reconnectAttempts < maxA
  /\ reconnectAttempts' = reconnectAttempts + 1
  /\ sockState' = ClosedBy(ss, ws)
  /\ ws' = 0
  /\ StopRecording
  /\ IF reconnectAttempts + 1 <= maxReconnectAttempts
     THEN /\ Report("reconnecting")
          /\ backoffsPending' = backoffsPending + 1
          /\ errCount' = errCount
     ELSE /\ errCount' = CountErr(errCount)
          /\ Report("disconnected")
          /\ backoffsPending' = backoffsPending

\* the synchronous part of RealtimeChat.init, up to the credential fetch
InitSync ==
  /\ isIntentionalDisconnect' = FALSE
  /\ Report("connecting")
  /\ connectionTimeout' = TRUE
  /\ orphanTimeouts' = IF connectionTimeout
                       THEN orphanTimeouts + 1 ELSE orphanTimeouts
  /\ initsPending' = initsPending + 1
  /\ nInits' = nInits + 1

\* the caller calls init()
CallerInit(maxI) ==
  /\ nInits < maxI
  /\ InitSync
  /\ reinits' = 0
  /\ UNCHANGED <<ws, recorder, isRecording, reconnectAttempts, pingInterval,
                 stale, sockState, sentLog, recState, backoffsPending,
                 errCount, lastMuted>>
  /\ UNCHANGED <<audioSettings, sentConfig, created, lastText>>
  /\ UNCHANGED <<eventsSeen, otherVars>>

\* the credential fetch of an init() succeeds: the socket is created
FetchOk ==
  /\ initsPending > 0
  /\ initsPending' = initsPending - 1
  /\ sockState' = Append(sockState, "connecting")
  /\ sentLog' = Append(sentLog, <<>>)
  /\ recState' = Append(recState, "none")
  /\ ws' = Len(sockState) + 1
  /\ sentConfig' = Append(sentConfig, <<>>)
  /\ created' = Append(created, FALSE)
  /\ UNCHANGED <<recorder, isRecording, reconnectAttempts, isIntentionalDisconnect,
                 pingInterval, connectionTimeout, stale, orphanTimeouts,
                 backoffsPending, nInits, lastStatus, errCount, lastMuted>>
  /\ UNCHANGED <<audioSettings, lastText>>
  /\ UNCHANGED notChatVars

\* the credential fetch of an init() fails (after its retries): the catch block
FetchFail(maxA) ==
  /\ initsPending > 0
  /\ initsPending' = initsPending - 1
  /\ ClearConnectionTimeout
  /\ IF ~isIntentionalDisconnect /\ reconnectAttempts < maxReconnectAttempts
     THEN AttemptReconnect(sockState, maxA)
     ELSE /\ errCount' = CountErr(errCount)
          /\ Report("disconnected")
          /\ UNCHANGED <<reconnectAttempts, sockState, ws, isRecording, recState,
                         recorder, backoffsPending>>
  /\ UNCHANGED <<isIntentionalDisconnect, pingInterval, stale, sentLog,
                 orphanTimeouts, nInits, lastMuted>>
  /\ UNCHANGED <<audioSettings, sentConfig, created, lastText>>
  /\ UNCHANGED notChatVars

\* a pending connection timeout fires: the callback set in init()
OnConnectionTimeout(maxA) ==
  /\ IF ws = 0 \/ sockState[ws] # "open"
     THEN AttemptReconnect(sockState, maxA)
     ELSE UNCHANGED <<reconnectAttempts, sockState, ws, isRecording, recState,
                      recorder, backoffsPending, errCount, lastStatus>>
  /\ UNCHANGED <<isIntentionalDisconnect, pingInterval, stale, sentLog,
                 initsPending, nInits, lastMuted>>
  /\ UNCHANGED <<audioSettings, sentConfig, created, lastText>>
  /\ UNCHANGED notChatVars

\* the timeout whose handle this.connectionTimeout still holds
TimeoutFire(maxA) ==
  /\ connectionTimeout
  /\ connectionTimeout' = FALSE
  /\ UNCHANGED orphanTimeouts
  /\ OnConnectionTimeout(maxA)

\* a timeout whose handle a later init() overwrote: nothing can clear it
OrphanTimeoutFire(maxA) ==
  /\ orphanTimeouts > 0
  /\ orphanTimeouts' = orphanTimeouts - 1
  /\ UNCHANGED connectionTimeout
  /\ OnConnectionTimeout(maxA)

\* ws.onopen of socket s
SockOpen(s) ==
  /\ sockState[s] = "connecting"
  /\ sockState' = [sockState EXCEPT ![s] = "open"]
  /\ ClearConnectionTimeout
  /\ reconnectAttempts' = 0
  /\ Report("connected")
  /\ stale' = FALSE
  /\ pingInterval' = TRUE
  \* startRecording: a new recorder replaces this.recorder, then start() awaits
  /\ recorder' = s
  /\ recState' = [recState EXCEPT ![s] = "starting"]
  /\ reinits' = 0
  /\ UNCHANGED <<ws, isRecording, isIntentionalDisconnect, sentLog, orphanTimeouts,
                 initsPending, backoffsPending, nInits, errCount, lastMuted>>
  /\ UNCHANGED <<audioSettings, sentConfig, created, lastText>>
  /\ UNCHANGED <<eventsSeen, otherVars>>

\* ws.onclose of socket s, whose readyState has just become CLOSED
OnClose(s, maxA) ==
  /\ ClearConnectionTimeout
  /\ pingInterval' = FALSE
  /\ IF ~isIntentionalDisconnect /\ reconnectAttempts < maxReconnectAttempts
     THEN AttemptReconnect([sockState EXCEPT ![s] = "closed"], maxA)
     ELSE /\ sockState' = [sockState EXCEPT ![s] = "closed"]
          /\ StopRecording
          /\ Report("disconnected")
          /\ UNCHANGED <<reconnectAttempts, ws, backoffsPending, errCount>>
  /\ UNCHANGED <<isIntentionalDisconnect, stale, sentLog, orphanTimeouts,
                 initsPending, nInits, lastMuted>>
  /\ UNCHANGED <<audioSettings, sentConfig, created, lastText>>
  /\ UNCHANGED notChatVars

\* the network or the server ends socket s, before or after it opened
SockFail(s, maxA) ==
  /\ sockState[s] \in {"connecting", "open"}
  /\ OnClose(s, maxA)

\* the close event of a socket the session closed itself
SockClosed(s, maxA) ==
  /\ sockState[s] = "closing"
  /\ OnClose(s, maxA)

\* the backoff delay of an attemptReconnect() ends
BackoffEnd(maxI) ==
  /\ backoffsPending > 0
  /\ backoffsPending' = backoffsPending - 1
  /\ IF ~isIntentionalDisconnect
     THEN /\ nInits < maxI
          /\ InitSync
          /\ reinits' = reinits + 1
     ELSE UNCHANGED <<isIntentionalDisconnect, lastStatus, connectionTimeout,
                      orphanTimeouts, initsPending, nInits, reinits>>
  /\ UNCHANGED <<ws, recorder, isRecording, reconnectAttempts, pingInterval,
                 stale, sockState, sentLog, recState, errCount, lastMuted>>
  /\ UNCHANGED <<audioSettings, sentConfig, created, lastText>>
  /\ UNCHANGED <<eventsSeen, otherVars>>

\* getUserMedia of recorder r resolves: AudioRecorder.start() builds the graph,
\* also when stop() ran meanwhile, and startRecording() sets isRecording
MicGranted(r) ==
  /\ recState[r] = "starting"
  /\ recState' = [recState EXCEPT ![r] = "running"]
  /\ isRecording' = TRUE
  /\ UNCHANGED <<ws, recorder, reconnectAttempts, isIntentionalDisconnect,
                 pingInterval, connectionTimeout, stale, sockState, sentLog,
                 orphanTimeouts, initsPending, backoffsPending, nInits, lastStatus,
                 errCount, lastMuted>>
  /\ UNCHANGED <<audioSettings, sentConfig, created, lastText>>
  /\ UNCHANGED notChatVars

\* getUserMedia of recorder r rejects: startRecording() logs and returns
MicDenied(r) ==
  /\ recState[r] = "starting"
  /\ recState' = [recState EXCEPT ![r] = "off"]
  /\ UNCHANGED <<ws, recorder, isRecording, reconnectAttempts,
                 isIntentionalDisconnect, pingInterval, connectionTimeout, stale,
                 sockState, sentLog, orphanTimeouts, initsPending, backoffsPending,
                 nInits, lastStatus, errCount, lastMuted>>
  /\ UNCHANGED <<audioSettings, sentConfig, created, lastText>>
  /\ UNCHANGED notChatVars

InLog(log, k) == \E i \in 1..Len(log) : log[i] = k

\* WebSocket.send of a message of kind k on socket w: sent when w is OPEN
\* (send throws on a CONNECTING socket and drops the data on a closing one)
Sent(logs, w, k) ==
  IF w # 0 /\ sockState[w] = "open" /\ ~InLog(logs[w], k)
  THEN [logs EXCEPT ![w] = Append(@, k)]
  ELSE logs

\* the guard of the recorder callback set in startRecording
FrameIsSent == ws # 0 /\ sockState[ws] = "open" /\ isRecording

\* onaudioprocess of recorder r: the callback set in startRecording
AudioFrame(r) ==
  /\ recState[r] = "running"
  /\ FrameIsSent
  /\ sentLog' = Sent(sentLog, ws, "input_audio_buffer.append")
  /\ UNCHANGED <<ws, recorder, isRecording, reconnectAttempts,
                 isIntentionalDisconnect, pingInterval, connectionTimeout, stale,
                 sockState, recState, orphanTimeouts, initsPending, backoffsPending,
                 nInits, lastStatus, errCount, lastMuted>>
  /\ UNCHANGED <<audioSettings, sentConfig, created, lastText>>
  /\ UNCHANGED notChatVars

MsgKinds == {"session.created", "response.audio.done"}

\* the session.update that handleEvent sends on socket w, carrying the tuning t
\* of this.audioSettings: sent when w is OPEN
SentConfig(cfgs, w, t) ==
  IF w # 0 /\ sockState[w] = "open"
  THEN [cfgs EXCEPT ![w] = Append(@, t)]
  ELSE cfgs

\* ws.onmessage of socket s with an event of kind k, and handleEvent; the server
\* sends session.created once, at the start of a connection
Message(s, k) ==
  /\ sockState[s] = "open"
  /\ k = "session.created" => ~created[s]
  /\ stale' = FALSE
  /\ sentLog' = IF k = "session.created"
                THEN Sent(sentLog, ws, "session.update")
                ELSE sentLog
  /\ sentConfig' = IF k = "session.created"
                   THEN SentConfig(sentConfig, ws, audioSettings)
                   ELSE sentConfig
  /\ created' = IF k = "session.created"
                THEN [created EXCEPT ![s] = TRUE]
                ELSE created
  /\ UNCHANGED <<ws, recorder, isRecording, reconnectAttempts,
                 isIntentionalDisconnect, pingInterval, connectionTimeout, sockState,
                 recState, orphanTimeouts, initsPending, backoffsPending, nInits,
                 lastStatus, errCount, lastMuted>>
  /\ UNCHANGED <<audioSettings, lastText>>
  /\ UNCHANGED notChatVars

\* a switch with a default case that reports the event as an error
SwitchDefaultReportsError ==
  /\ errCount' = CountErr(errCount)
  /\ UNCHANGED <<sentLog, sentConfig>>

\* the switch of handleEvent on a type it has no case for: no case runs
SwitchDefault ==
  UNCHANGED <<sentLog, sentConfig, errCount>>

\* ws.onmessage of socket s with an event of a kind handleEvent has no case
\* for (rate_limits.updated, say): lastPongTime, callbacks.onMessage, the switch
UnknownEvent(s) ==
  /\ sockState[s] = "open"
  /\ stale' = FALSE
  /\ passedThrough' = TRUE
  /\ SwitchDefault
  /\ UNCHANGED <<ws, recorder, isRecording, reconnectAttempts,
                 isIntentionalDisconnect, pingInterval, connectionTimeout, sockState,
                 recState, orphanTimeouts, initsPending, backoffsPending, nInits,
                 lastStatus, lastMuted>>
  /\ UNCHANGED <<audioSettings, created, lastText>>
  /\ UNCHANGED <<transcriptionFailed, reinits, otherVars>>

\* a case that treats the failure as an error of the session
TranscriptionFailedIsReported ==
  /\ errCount' = CountErr(errCount)
  /\ UNCHANGED <<sentLog, sentConfig>>

\* the case 'conversation.item.input_audio_transcription.failed' of handleEvent:
\* a warning is logged
TranscriptionFailedCase ==
  UNCHANGED <<sentLog, sentConfig, errCount>>

\* ws.onmessage of socket s with a transcription-failure event, and handleEvent
TranscriptionFailed(s) ==
  /\ sockState[s] = "open"
  /\ stale' = FALSE
  /\ transcriptionFailed' = TRUE
  /\ TranscriptionFailedCase
  /\ UNCHANGED <<ws, recorder, isRecording, reconnectAttempts,
                 isIntentionalDisconnect, pingInterval, connectionTimeout, sockState,
                 recState, orphanTimeouts, initsPending, backoffsPending, nInits,
                 lastStatus, lastMuted>>
  /\ UNCHANGED <<audioSettings, created, lastText>>
  /\ UNCHANGED <<passedThrough, reinits, otherVars>>

\* 30 s pass without an inbound message
GoStale ==
  /\ pingInterval
  /\ ~stale
  /\ stale' = TRUE
  /\ UNCHANGED <<ws, recorder, isRecording, reconnectAttempts,
                 isIntentionalDisconnect, pingInterval, connectionTimeout, sockState,
                 sentLog, recState, orphanTimeouts, initsPending, backoffsPending,
                 nInits, lastStatus, errCount, lastMuted>>
  /\ UNCHANGED <<audioSettings, sentConfig, created, lastText>>
  /\ UNCHANGED notChatVars

\* the heartbeat interval fires and finds the connection stale
HeartbeatTick(maxA) ==
  /\ pingInterval
  /\ stale
  /\ AttemptReconnect(sockState, maxA)
  /\ UNCHANGED <<isIntentionalDisconnect, pingInterval, connectionTimeout, stale,
                 sentLog, orphanTimeouts, initsPending, nInits, lastMuted>>
  /\ UNCHANGED <<audioSettings, sentConfig, created, lastText>>
  /\ UNCHANGED notChatVars

\* a mute that stops the capture device, and an unmute that leaves it stopped
SetMutedStopsCapture(m) ==
  /\ lastMuted' = IF m THEN "true" ELSE "false"
  /\ IF m THEN StopRecording ELSE UNCHANGED <<isRecording, recState, recorder>>
  /\ UNCHANGED <<ws, reconnectAttempts, isIntentionalDisconnect,
                 pingInterval, connectionTimeout, stale, sockState, sentLog,
                 orphanTimeouts, initsPending, backoffsPending, nInits,
                 lastStatus, errCount>>
  /\ UNCHANGED <<audioSettings, sentConfig, created, lastText>>
  /\ UNCHANGED notChatVars

\* RealtimeChat.setMuted
SetMuted(m) ==
  /\ isRecording' = ~m
  /\ lastMuted' = IF m THEN "true" ELSE "false"
  /\ UNCHANGED <<ws, recorder, reconnectAttempts, isIntentionalDisconnect,
                 pingInterval, connectionTimeout, stale, sockState, sentLog,
                 recState, orphanTimeouts, initsPending, backoffsPending, nInits,
                 lastStatus, errCount>>
  /\ UNCHANGED <<audioSettings, sentConfig, created, lastText>>
  /\ UNCHANGED notChatVars

\* RealtimeChat.disconnect
Disconnect ==
  /\ isIntentionalDisconnect' = TRUE
  /\ pingInterval' = FALSE
  /\ ClearConnectionTimeout
  /\ StopRecording
  /\ sockState' = ClosedBy(sockState, ws)
  /\ ws' = 0
  /\ Report("disconnected")
  /\ UNCHANGED <<reconnectAttempts, stale, sentLog, orphanTimeouts,
                 initsPending, backoffsPending, nInits, errCount, lastMuted>>
  /\ UNCHANGED <<audioSettings, sentConfig, created, lastText>>
  /\ UNCHANGED notChatVars

\* the tunings a caller passes: getOptimalAudioSettings of a network tier
Tunings == {"good", "poor"}

\* RealtimeChat.updateAudioSettings(t)
UpdateAudioSettings(t) ==
  /\ audioSettings' = t
  /\ UNCHANGED <<ws, recorder, isRecording, reconnectAttempts,
                 isIntentionalDisconnect, pingInterval, connectionTimeout, stale,
                 sockState, sentLog, recState, orphanTimeouts, initsPending,
                 backoffsPending, nInits, lastStatus, errCount, lastMuted>>
  /\ UNCHANGED <<sentConfig, created, lastText>>
  /\ UNCHANGED notChatVars

\* a readiness test that looks at this.ws only, not at its readyState
WsIsNull == ws = 0

\* the guard of sendTextMessage: !this.ws || this.ws.readyState !== OPEN
WsNotReady == ws = 0 \/ sockState[ws] # "open"

\* RealtimeChat.sendTextMessage: it throws, or sends the item and the
\* response.create
SendTextMessage ==
  /\ IF WsNotReady
     THEN /\ lastText' = "threw"
          /\ UNCHANGED sentLog
     ELSE /\ lastText' = "sent"
          /\ sentLog' = Sent(Sent(sentLog, ws, "conversation.item.create"),
                             ws, "response.create")
  /\ UNCHANGED <<ws, recorder, isRecording, reconnectAttempts,
                 isIntentionalDisconnect, pingInterval, connectionTimeout, stale,
                 sockState, recState, orphanTimeouts, initsPending,
                 backoffsPending, nInits, lastStatus, errCount, lastMuted>>
  /\ UNCHANGED <<audioSettings, sentConfig, created>>
  /\ UNCHANGED notChatVars

\* the payloads of an inbound 'error' event: event.error is an object whose type
\* is 'invalid_request_error', an object of another type, an object without a
\* type, a string, or is missing
ErrorShapes == {"invalid_request_error", "server_error", "untyped", "string", "absent"}

\* the test of handleEvent's 'error' case: event.error is a (non-null) object
\* and its type is not 'invalid_request_error'
Surfaced(e) == e \in {"server_error", "untyped"}

\* ws.onmessage of socket s with an 'error' event of payload e, and handleEvent
ErrorEvent(s, e) ==
  /\ sockState[s] = "open"
  /\ stale' = FALSE
  /\ errCount' = IF Surfaced(e) THEN CountErr(errCount) ELSE errCount
  /\ UNCHANGED <<ws, recorder, isRecording, reconnectAttempts,
                 isIntentionalDisconnect, pingInterval, connectionTimeout, sockState,
                 sentLog, recState, orphanTimeouts, initsPending, backoffsPending,
                 nInits, lastStatus, lastMuted>>
  /\ UNCHANGED <<audioSettings, sentConfig, created, lastText>>
  /\ UNCHANGED notChatVars

(***************************************************************************)
(*                            DIDClient                                    *)
(***************************************************************************)
InitDID ==
  /\ connected = TRUE
  /\ isSpeaking = FALSE
  /\ isProcessingQueue = FALSE
  /\ speakQueue = <<>>
  /\ speechDisabled = FALSE
  /\ chains = {}
  /\ backendLog = <<>>
  /\ inFlight = {}
  /\ nSpeaks = 0
  /\ result = <<>>
  /\ whileSpeaking = TRUE
  /\ anyFail = FALSE
  /\ everDisc = FALSE

\* a queue that puts the newest text first
EnqueueFront(q, text) == <<text>> \o q

\* a queue that forgets the text it is given
EnqueueDrop(q, text) == q

\* this.speakQueue.push(text)
Enqueue(q, text) == Append(q, text)

\* the text this.speakQueue.shift() returns
QueueHead(q) == Head(q)

\* processSpeak(text) up to its await of the backend 'speak' call; cs is the
\* set of the other calls in progress
ProcessSpeak(text, cs) ==
  IF ~connected
  THEN /\ chains' = cs
       /\ UNCHANGED <<isProcessingQueue, isSpeaking, backendLog, inFlight>>
  ELSE /\ isProcessingQueue' = TRUE
       /\ isSpeaking' = TRUE
       /\ backendLog' = Append(backendLog, text)
       /\ inFlight' = inFlight \cup {text}
       /\ chains' = cs \cup {[text |-> text, pc |-> "invoke"]}

\* DIDClient.speak: the text of the call is its number
Speak ==
  /\ nSpeaks < MaxSpeaks
  /\ nSpeaks' = nSpeaks + 1
  /\ whileSpeaking' = (whileSpeaking /\ (nSpeaks = 0 \/ isSpeaking))
  /\ IF ~connected \/ speechDisabled
     THEN /\ result' = Append(result, "false")
          /\ UNCHANGED <<speakQueue, chains, isProcessingQueue, isSpeaking,
                         backendLog, inFlight>>
     ELSE IF isSpeaking \/ isProcessingQueue
     THEN /\ speakQueue' = Enqueue(speakQueue, nSpeaks + 1)
          /\ result' = Append(result, "true")
          /\ UNCHANGED <<chains, isProcessingQueue, isSpeaking, backendLog,
                         inFlight>>
     ELSE /\ result' = Append(result, "pending")
          /\ ProcessSpeak(nSpeaks + 1, chains)
          /\ UNCHANGED speakQueue
  /\ UNCHANGED <<connected, speechDisabled, anyFail, everDisc>>
  /\ UNCHANGED notDidVars

\* the end of a processSpeak(text) whose backend call returned: speaking-end,
\* then the next queued text is taken and waits the inter-utterance delay
Finish(c, disabled) ==
  /\ isSpeaking' = FALSE
  /\ inFlight' = inFlight \ {c.text}
  /\ isProcessingQueue' = FALSE
  /\ IF Len(speakQueue) > 0 /\ ~disabled
     THEN /\ chains' = (chains \ {c}) \cup {[text |-> QueueHead(speakQueue), pc |-> "delay"]}
          /\ speakQueue' = Tail(speakQueue)
     ELSE /\ chains' = chains \ {c}
          /\ UNCHANGED speakQueue

\* the backend answers the 'speak' call of c without error: the duration wait
BackendOk(c) ==
  /\ c.pc = "invoke"
  /\ chains' = (chains \ {c}) \cup {[c EXCEPT !.pc = "duration"]}
  /\ result' = [result EXCEPT ![c.text] = IF @ = "pending" THEN "true" ELSE @]
  /\ UNCHANGED <<connected, isSpeaking, isProcessingQueue, speakQueue,
                 speechDisabled, backendLog, inFlight, nSpeaks, whileSpeaking,
                 anyFail, everDisc>>
  /\ UNCHANGED notDidVars

\* the backend answers the 'speak' call of c with an error; quota: the message
\* holds '402', 'insufficient' or 'credits'
BackendError(c, quota) ==
  /\ c.pc = "invoke"
  /\ speechDisabled' = (speechDisabled \/ quota)
  /\ result' = [result EXCEPT ![c.text] = IF @ = "pending" THEN "false" ELSE @]
  /\ anyFail' = TRUE
  /\ Finish(c, speechDisabled \/ quota)
  /\ UNCHANGED <<connected, backendLog, nSpeaks, whileSpeaking, everDisc>>
  /\ UNCHANGED notDidVars

\* the backend 'speak' call of c rejects: the catch block
BackendThrow(c) ==
  /\ c.pc = "invoke"
  /\ isSpeaking' = FALSE
  /\ isProcessingQueue' = FALSE
  /\ inFlight' = inFlight \ {c.text}
  /\ chains' = chains \ {c}
  /\ result' = [result EXCEPT ![c.text] = IF @ = "pending" THEN "false" ELSE @]
  /\ anyFail' = TRUE
  /\ UNCHANGED <<connected, speakQueue, speechDisabled, backendLog, nSpeaks,
                 whileSpeaking, everDisc>>
  /\ UNCHANGED notDidVars

\* the estimated speaking duration of c has passed
DurationEnd(c) ==
  /\ c.pc = "duration"
  /\ Finish(c, speechDisabled)
  /\ UNCHANGED <<connected, speechDisabled, backendLog, nSpeaks, result,
                 whileSpeaking, anyFail, everDisc>>
  /\ UNCHANGED notDidVars

\* the 500 ms inter-utterance delay of c has passed: processSpeak(nextText)
DelayEnd(c) ==
  /\ c.pc = "delay"
  /\ ProcessSpeak(c.text, chains \ {c})
  /\ UNCHANGED <<connected, speakQueue, speechDisabled, nSpeaks, result,
                 whileSpeaking, anyFail, everDisc>>
  /\ UNCHANGED notDidVars

\* DIDClient.disconnect: streamId and sessionId are reset
DIDDisconnect ==
  /\ connected
  /\ connected' = FALSE
  /\ everDisc' = TRUE
  /\ UNCHANGED <<isSpeaking, isProcessingQueue, speakQueue, speechDisabled, chains,
                 backendLog, inFlight, nSpeaks, result, whileSpeaking, anyFail>>
  /\ UNCHANGED notDidVars

\* DIDClient.init: the create-stream answer sets streamId and sessionId
DIDInit ==
  /\ ~connected
  /\ connected' = TRUE
  /\ UNCHANGED <<isSpeaking, isProcessingQueue, speakQueue, speechDisabled, chains,
                 backendLog, inFlight, nSpeaks, result, whileSpeaking, anyFail,
                 everDisc>>
  /\ UNCHANGED notDidVars

(***************************************************************************)
(*                        useNetworkQuality                                *)
(* rtt and latencies are in ms; downlink is in tenths of Mb/s, so that the  *)
(* thresholds 5, 2 and 0.5 Mb/s are 50, 20 and 5.                          *)
(***************************************************************************)
InitNet ==
  /\ online = TRUE
  /\ mounted = FALSE
  /\ netInfo = [quality |-> "good", effectiveType |-> "4g", downlink |-> 100,
                rtt |-> 50, isOnline |-> TRUE]
  /\ probesPending = 0

\* what navigator.connection reports (0 and "": the field, or the whole
\* object, is missing)
ConnRtts == {0, 50, 250}
Downlinks == {0, 5, 6, 20, 21, 50, 51, 100}
EffectiveTypes == {"", "4g", "3g", "2g", "slow-2g"}

\* what measureLatency returns when its request succeeds
Latencies == {40, 99, 100, 199, 200, 299, 300, 599, 600}

\* a classification that looks at the connection type before the thresholds
DetermineQualityTypeFirst(rtt, downlink, effectiveType, onLine) ==
  IF ~onLine THEN "offline"
  ELSE IF effectiveType = "4g" /\ rtt < 200 THEN "good"
  ELSE IF effectiveType = "3g" THEN "fair"
  ELSE IF effectiveType = "2g" \/ effectiveType = "slow-2g" THEN "poor"
  ELSE IF rtt < 100 /\ downlink > 50 THEN "excellent"
  ELSE IF rtt < 300 /\ downlink > 20 THEN "good"
  ELSE IF rtt < 600 /\ downlink > 5 THEN "fair"
  ELSE "poor"

\* a classification that does not look at navigator.onLine
DetermineQualityAsOnline(rtt, downlink, effectiveType, onLine) ==
  IF rtt < 100 /\ downlink > 50 THEN "excellent"
  ELSE IF rtt < 300 /\ downlink > 20 THEN "good"
  ELSE IF rtt < 600 /\ downlink > 5 THEN "fair"
  ELSE IF effectiveType = "4g" /\ rtt < 200 THEN "good"
  ELSE IF effectiveType = "3g" THEN "fair"
  ELSE "poor"

\* determineQuality; onLine is navigator.onLine when it is called
DetermineQuality(rtt, downlink, effectiveType, onLine) ==
  IF ~onLine THEN "offline"
  ELSE IF rtt < 100 /\ downlink > 50 THEN "excellent"
  ELSE IF rtt < 300 /\ downlink > 20 THEN "good"
  ELSE IF rtt < 600 /\ downlink > 5 THEN "fair"
  ELSE IF effectiveType = "4g" /\ rtt < 200 THEN "good"
  ELSE IF effectiveType = "3g" THEN "fair"
  ELSE IF effectiveType = "2g" \/ effectiveType = "slow-2g" THEN "poor"
  ELSE "poor"

Tiers == {"excellent", "good", "fair", "poor", "offline"}

\* a tuning table in which 'good' waits for less silence than 'excellent'
TuningWithSwappedSilence(quality) ==
  CASE quality = "excellent" ->
         [bufferSize |-> 4096, silenceDuration |-> 800, prefixPadding |-> 300,
          threshold |-> 50]
    [] quality = "good" ->
         [bufferSize |-> 4096, silenceDuration |-> 600, prefixPadding |-> 400,
          threshold |-> 60]
    [] quality = "fair" ->
         [bufferSize |-> 8192, silenceDuration |-> 1000, prefixPadding |-> 500,
          threshold |-> 65]
    [] OTHER ->
         [bufferSize |-> 8192, silenceDuration |-> 1200, prefixPadding |-> 600,
          threshold |-> 70]

\* getOptimalAudioSettings; threshold is in hundredths
GetOptimalAudioSettings(quality) ==
  CASE quality = "excellent" ->
         [bufferSize |-> 4096, silenceDuration |-> 600, prefixPadding |-> 300,
          threshold |-> 50]
    [] quality = "good" ->
         [bufferSize |-> 4096, silenceDuration |-> 800, prefixPadding |-> 400,
          threshold |-> 60]
    [] quality = "fair" ->
         [bufferSize |-> 8192, silenceDuration |-> 1000, prefixPadding |-> 500,
          threshold |-> 65]
    [] OTHER ->
         [bufferSize |-> 8192, silenceDuration |-> 1200, prefixPadding |-> 600,
          threshold |-> 70]

\* Math.max
Max(a, b) == IF a > b THEN a ELSE b

\* the hook is mounted: useState's initial value, and the effect calls
\* updateNetworkInfo()
NetMount ==
  /\ ~mounted
  /\ mounted' = TRUE
  /\ netInfo' = [quality |-> "good", effectiveType |-> "4g", downlink |-> 100,
                 rtt |-> 50, isOnline |-> online]
  /\ probesPending' = 1
  /\ UNCHANGED online
  /\ UNCHANGED notNetVars

\* updateNetworkInfo() is called by the 30 s interval or by a 'change' event of
\* the connection, and awaits measureLatency()
UpdateNetworkInfo ==
  /\ mounted
  /\ probesPending < MaxProbes
  /\ probesPending' = probesPending + 1
  /\ UNCHANGED <<online, mounted, netInfo>>
  /\ UNCHANGED notNetVars

\* the rest of updateNetworkInfo() once measureLatency() has returned measured;
\* cr, cd and ce are the rtt, downlink and effectiveType the connection reported
\* when the call began (they depend on nothing the hook holds)
Classify(cr, cd, ce, measured) ==
  LET effectiveType == IF ce = "" THEN "4g" ELSE ce
      downlink == IF cd = 0 THEN 100 ELSE cd
      rtt == Max(IF cr = 0 THEN 50 ELSE cr, measured)
  IN  /\ probesPending > 0
      /\ probesPending' = probesPending - 1
      /\ netInfo' = [quality |-> DetermineQuality(rtt, downlink, effectiveType, online),
                     effectiveType |-> effectiveType, downlink |-> downlink,
                     rtt |-> rtt, isOnline |-> online]
      /\ UNCHANGED <<online, mounted>>
      /\ UNCHANGED notNetVars

\* the request of measureLatency() succeeds after m ms
LatencyMeasured(cr, cd, ce, m) ==
  /\ m \in Latencies
  /\ Classify(cr, cd, ce, m)

\* the request of measureLatency() fails: it returns 5000
LatencyFailed(cr, cd, ce) ==
  /\ mounted
  /\ Classify(cr, cd, ce, 5000)

\* the browser goes offline: the 'offline' event runs handleOffline
NetOffline ==
  /\ online
  /\ online' = FALSE
  /\ netInfo' = IF mounted
                THEN [netInfo EXCEPT !.quality = "offline", !.isOnline = FALSE]
                ELSE netInfo
  /\ UNCHANGED <<mounted, probesPending>>
  /\ UNCHANGED notNetVars

\* the browser goes online: the 'online' event runs updateNetworkInfo()
NetOnline ==
  /\ ~online
  /\ online' = TRUE
  /\ mounted => probesPending < MaxProbes
  /\ probesPending' = IF mounted THEN probesPending + 1 ELSE probesPending
  /\ UNCHANGED <<mounted, netInfo>>
  /\ UNCHANGED notNetVars

(***************************************************************************)
(*                          The audio codec                                *)
(* A sample s is the integer s * SampleScale: the grid is twice as fine as *)
(* the 16-bit one, 1/32768 being 2 units.                                  *)
(***************************************************************************)
SampleScale == 65536

InitCodec ==
  /\ codecPc = "idle"
  /\ samples = <<>>
  /\ encoded = <<>>
  /\ decoded = <<>>

\* the sample values captured: -2, -1, the value next to -1, values next to
\* -0.5, 0 and 0.5, the value next to 1, 1, and 2
SampleValues ==
  {-131072, -65536, -65535, -32769, -3, -1, 0, 1, 3, 32769, 65535, 65536, 131072}

SampleArrays ==
  UNION {[1..n -> SampleValues] : n \in 0..MaxSamples}

Min(a, b) == IF a < b THEN a ELSE b

\* the integer part of s * k for a sample s >= 0 given as n = s * SampleScale
\* (the product is split so that it stays within 32 bits)
ScaledInt(n, k) ==
  (n \div SampleScale) * k + ((n % SampleScale) * k) \div SampleScale

\* the conversion of a number to an Int16Array element: modulo 2^16
Wrap16(i) == ((i + 32768) % 65536) - 32768

\* the loop body of encodeAudioForAPI: clamp, scale by 0x8000 or 0x7FFF, and
\* store in the Int16Array (the fraction is dropped)
ToPcm16(n) ==
  LET s == Max(0 - SampleScale, Min(SampleScale, n))
  IN  Wrap16(IF s < 0 THEN 0 - ScaledInt(0 - s, 32768) ELSE ScaledInt(s, 32767))

\* new Uint8Array(int16Array.buffer): two bytes per sample, low byte first
RECURSIVE BytesOf(_)
BytesOf(ints) ==
  IF Len(ints) = 0 THEN <<>>
  ELSE LET u == (Head(ints) + 65536) % 65536
       IN  <<u % 256, u \div 256>> \o BytesOf(Tail(ints))

\* btoa: the base64 digits of a byte string
RECURSIVE Btoa(_)
Btoa(b) ==
  IF Len(b) = 0 THEN <<>>
  ELSE IF Len(b) = 1 THEN <<b[1] \div 4, (b[1] % 4) * 16, 64, 64>>
  ELSE IF Len(b) = 2
  THEN <<b[1] \div 4, (b[1] % 4) * 16 + b[2] \div 16, (b[2] % 16) * 4, 64>>
  ELSE <<b[1] \div 4, (b[1] % 4) * 16 + b[2] \div 16,
         (b[2] % 16) * 4 + b[3] \div 64, b[3] % 64>> \o Btoa(SubSeq(b, 4, Len(b)))

\* atob: the byte string of base64 digits
RECURSIVE Atob(_)
Atob(d) ==
  IF Len(d) < 4 THEN <<>>
  ELSE LET b1 == d[1] * 4 + d[2] \div 16
           b2 == (d[2] % 16) * 16 + (d[3] % 64) \div 4
           b3 == (d[3] % 4) * 64 + (d[4] % 64)
           group == IF d[3] = 64 THEN <<b1>>
                    ELSE IF d[4] = 64 THEN <<b1, b2>>
                    ELSE <<b1, b2, b3>>
       IN  group \o Atob(SubSeq(d, 5, Len(d)))

\* encodeAudioForAPI
EncodeAudioForAPI(float32Array) ==
  Btoa(BytesOf([i \in 1..Len(float32Array) |-> ToPcm16(float32Array[i])]))

\* decodeAudioFromAPI
DecodeAudioFromAPI(base64Audio) == Atob(base64Audio)

\* the recorder delivers a block of samples
Capture(block) ==
  /\ codecPc = "idle"
  /\ codecPc' = "captured"
  /\ samples' = block
  /\ UNCHANGED <<encoded, decoded>>
  /\ UNCHANGED notCodecVars

\* the block is encoded for the wire
Encode ==
  /\ codecPc = "captured"
  /\ codecPc' = "encoded"
  /\ encoded' = EncodeAudioForAPI(samples)
  /\ UNCHANGED <<samples, decoded>>
  /\ UNCHANGED notCodecVars

\* the receiver of the string decodes it
Decode ==
  /\ codecPc = "encoded"
  /\ codecPc' = "decoded"
  /\ decoded' = DecodeAudioFromAPI(encoded)
  /\ UNCHANGED <<samples, encoded>>
  /\ UNCHANGED notCodecVars

(***************************************************************************)
(*                    AvatarVideoCall (orchestrator)                       *)
(***************************************************************************)
InitCall ==
  /\ callStatus = "disconnected"
  /\ callProcessing = FALSE
  /\ avatarSpeaking = FALSE
  /\ quiet = MaxQuiet
  /\ userTurns = 0

\* the word counts of the transcripts the speech recognition delivers
Words == 1..3

\* startConversation: setStatus('connecting'), then the avatar client's init()
StartConversation ==
  /\ callStatus = "disconnected"
  /\ callStatus' = "connecting"
  /\ UNCHANGED <<callProcessing, avatarSpeaking, quiet, userTurns>>
  /\ UNCHANGED notCallVars

\* the onConnected callback of the avatar client
OnConnected ==
  /\ callStatus = "connecting"
  /\ callStatus' = "connected"
  /\ UNCHANGED <<callProcessing, avatarSpeaking, quiet, userTurns>>
  /\ UNCHANGED notCallVars

\* the onSpeakingStart callback: the greeting or a reply is being spoken
OnSpeakingStart ==
  /\ callStatus = "connected"
  /\ ~avatarSpeaking
  /\ avatarSpeaking' = TRUE
  /\ UNCHANGED <<callStatus, callProcessing, quiet, userTurns>>
  /\ UNCHANGED notCallVars

\* the onSpeakingEnd callback
OnSpeakingEnd ==
  /\ avatarSpeaking
  /\ avatarSpeaking' = FALSE
  /\ quiet' = 0
  /\ UNCHANGED <<callStatus, callProcessing, userTurns>>
  /\ UNCHANGED notCallVars

\* one second passes while the avatar is silent
Second ==
  /\ ~avatarSpeaking
  /\ quiet < MaxQuiet
  /\ quiet' = quiet + 1
  /\ UNCHANGED <<callStatus, callProcessing, avatarSpeaking, userTurns>>
  /\ UNCHANGED notCallVars

\* handleVoiceInput accepts a (non-empty) transcript
InputAccepted == callStatus = "connected" /\ ~callProcessing

\* recognition.onresult with a transcript of w words, and handleVoiceInput: the
\* user turn is logged and getAIResponse sets isProcessing
VoiceInput(w) ==
  /\ w \in Words
  /\ IF InputAccepted
     THEN /\ userTurns' = IF userTurns < MaxTurns THEN userTurns + 1 ELSE userTurns
          /\ callProcessing' = TRUE
     ELSE UNCHANGED <<userTurns, callProcessing>>
  /\ UNCHANGED <<callStatus, avatarSpeaking, quiet>>
  /\ UNCHANGED notCallVars

\* getAIResponse ends (the reply was spoken, or the request failed): finally
ResponseDone ==
  /\ callProcessing
  /\ callProcessing' = FALSE
  /\ UNCHANGED <<callStatus, avatarSpeaking, quiet, userTurns>>
  /\ UNCHANGED notCallVars

\* endConversation
EndConversation ==
  /\ callStatus # "disconnected"
  /\ callStatus' = "disconnected"
  /\ avatarSpeaking' = FALSE
  /\ UNCHANGED <<callProcessing, quiet, userTurns>>
  /\ UNCHANGED notCallVars

(***************************************************************************)
(*                 The heartbeat of RealtimeChat, timed                    *)
(***************************************************************************)
InitHeartbeat ==
  /\ hbArmed = FALSE
  /\ sinceActivity = 0
  /\ sinceTick = 0
  /\ lastTick = "none"

\* the kinds of inbound message: those of handleEvent, one it has no case for,
\* and data that is not JSON
InboundKinds == {"session.created", "response.audio.delta", "response.audio.done",
                 "error", "rate_limits.updated", "malformed"}

\* a staleness test that also fires at exactly 30 s
IsStaleFromThirty(idle) == idle * 1000 >= StaleAfter

\* the test of the heartbeat callback: Date.now() - this.lastPongTime > 30000
IsStale(idle) == idle * 1000 > StaleAfter

\* ws.onopen: lastPongTime is set and startHeartbeat sets the interval anew
HbOnOpen ==
  /\ sinceActivity' = 0
  /\ hbArmed' = TRUE
  /\ sinceTick' = 0
  /\ UNCHANGED lastTick
  /\ UNCHANGED notHbVars

\* ws.onmessage with a message of kind k: lastPongTime is set before the data
\* is parsed and handled
HbOnMessage(k) ==
  /\ k \in InboundKinds
  /\ sinceActivity' = 0
  /\ UNCHANGED <<hbArmed, sinceTick, lastTick>>
  /\ UNCHANGED notHbVars

\* one second passes; a tick that is due fires first
HbSecond ==
  /\ hbArmed => sinceTick * 1000 < HeartbeatPeriod
  /\ sinceActivity' = IF sinceActivity < MaxIdle THEN sinceActivity + 1 ELSE sinceActivity
  /\ sinceTick' = IF hbArmed THEN sinceTick + 1 ELSE sinceTick
  /\ UNCHANGED <<hbArmed, lastTick>>
  /\ UNCHANGED notHbVars

\* the interval fires: the callback set in startHeartbeat
HbTick ==
  /\ hbArmed
  /\ sinceTick * 1000 = HeartbeatPeriod
  /\ sinceTick' = 0
  /\ lastTick' = IF IsStale(sinceActivity) THEN "attemptReconnect" ELSE "nothing"
  /\ UNCHANGED <<hbArmed, sinceActivity>>
  /\ UNCHANGED notHbVars

\* ws.onclose, or disconnect(): stopHeartbeat clears the interval
HbStop ==
  /\ hbArmed
  /\ hbArmed' = FALSE
  /\ sinceTick' = 0
  /\ UNCHANGED <<sinceActivity, lastTick>>
  /\ UNCHANGED notHbVars

(***************************************************************************)
(*              The backoff wait of RealtimeChat.attemptReconnect          *)
(***************************************************************************)
InitBackoff ==
  /\ boAttempts = 0
  /\ delay = 0
  /\ jitter = 0

RECURSIVE Pow2(_)
\* Math.pow(2, k)
Pow2(k) == IF k = 0 THEN 1 ELSE 2 * Pow2(k - 1)

\* an exponential delay without the cap
BackoffDelayUncapped(n) == 1000 * Pow2(n - 1)

\* Math.min(1000 * Math.pow(2, this.reconnectAttempts - 1), 10000)
BackoffDelay(n) == Min(1000 * Pow2(n - 1), 10000)

\* delay * 0.1 * Math.random(), Math.random() being r / RandomSteps
Jitter(d, r) == (d * r) \div (10 * RandomSteps)

\* attemptReconnect up to its wait, Math.random() returning r / RandomSteps
BackoffWait(r) ==
  /\ boAttempts <= maxReconnectAttempts
  /\ boAttempts' = boAttempts + 1
  /\ IF boAttempts + 1 <= maxReconnectAttempts
     THEN /\ delay' = BackoffDelay(boAttempts + 1)
          /\ jitter' = Jitter(BackoffDelay(boAttempts + 1), r)
     ELSE UNCHANGED <<delay, jitter>>
  /\ UNCHANGED notBoVars

\* ws.onopen: the counter is reset
BackoffReset ==
  /\ boAttempts > 0
  /\ boAttempts' = 0
  /\ UNCHANGED <<delay, jitter>>
  /\ UNCHANGED notBoVars

(***************************************************************************)
(*                          retryWithBackoff                               *)
(***************************************************************************)
InitRetry ==
  /\ rtPc = "idle"
  /\ maxRetries = 0
  /\ baseDelay = 0
  /\ maxDelay = 0
  /\ attempt = 0
  /\ calls = 0
  /\ lastError = 0
  /\ returned = 0
  /\ retryDelay = 0
  /\ retryJitter = 0

\* the arguments <<maxRetries, baseDelay, maxDelay>> of the calls: those of the
\* credential fetch in init(), the defaults, and others with a cap that is hit
\* early or with no retry at all
RetryArgs == {<<3, 1000, 5000>>, <<3, 1000, 10000>>, <<3, 500, 1000>>,
              <<2, 2000, 3000>>, <<0, 1000, 5000>>}

\* a loop that goes on for one attempt more
IsLastAttemptOffByOne(a, m) == a = m + 1

\* the test before the wait: attempt === maxRetries
IsLastAttempt(a, m) == a = m

\* Math.min(baseDelay * Math.pow(2, attempt), maxDelay)
RetryDelay(b, k, c) == Min(b * Pow2(k), c)

\* retryWithBackoff(fn, m, b, c) is called: the loop starts and calls fn
RetryStart(m, b, c) ==
  /\ rtPc = "idle"
  /\ rtPc' = "calling"
  /\ maxRetries' = m
  /\ baseDelay' = b
  /\ maxDelay' = c
  /\ attempt' = 0
  /\ calls' = 1
  /\ UNCHANGED <<lastError, returned, retryDelay, retryJitter>>
  /\ UNCHANGED notRtVars

\* the promise of fn resolves: its result is returned
FnResolves ==
  /\ rtPc = "calling"
  /\ rtPc' = "returned"
  /\ returned' = calls
  /\ UNCHANGED <<maxRetries, baseDelay, maxDelay, attempt, calls, lastError,
                 retryDelay, retryJitter>>
  /\ UNCHANGED notRtVars

\* the promise of fn rejects: the catch block, Math.random() returning
\* r / RandomSteps; after the loop, throw lastError
FnRejects(r) ==
  /\ rtPc = "calling"
  /\ lastError' = calls
  /\ IF IsLastAttempt(attempt, maxRetries)
     THEN /\ rtPc' = "rejected"
          /\ UNCHANGED <<retryDelay, retryJitter>>
     ELSE /\ rtPc' = "waiting"
          /\ retryDelay' = RetryDelay(baseDelay, attempt, maxDelay)
          /\ retryJitter' = Jitter(RetryDelay(baseDelay, attempt, maxDelay), r)
  /\ UNCHANGED <<maxRetries, baseDelay, maxDelay, attempt, calls, returned>>
  /\ UNCHANGED notRtVars

\* the wait ends: attempt++, and the loop calls fn again
RetryWaitEnd ==
  /\ rtPc = "waiting"
  /\ attempt' = attempt + 1
  /\ calls' = calls + 1
  /\ rtPc' = "calling"
  /\ UNCHANGED <<maxRetries, baseDelay, maxDelay, lastError, returned,
                 retryDelay, retryJitter>>
  /\ UNCHANGED notRtVars

(***************************************************************************)
(*        The speaking duration of DIDClient.processSpeak                  *)
(* The estimate words / 170 * 60 * 1000 + 800 is a multiple of 1/17 ms;    *)
(* durations are in units of 1/DurationScale ms.                           *)
(***************************************************************************)
DurationScale == 17

InitDuration ==
  /\ wordCount = -1
  /\ durationMs = 0
  /\ prevWordCount = -1
  /\ prevDurationMs = 0

\* (words / 170) * 60 * 1000 + 800
EstimatedMs(w) == w * 6000 + 800 * DurationScale

\* an estimate that is bounded below only
DurationWithoutCeiling(w) == Max(1500 * DurationScale, EstimatedMs(w))

\* Math.min(20000, Math.max(1500, estimatedMs))
DurationMs(w) == Min(20000 * DurationScale, Max(1500 * DurationScale, EstimatedMs(w)))

\* processSpeak computes the wait for a text of w words
EstimateDuration(w) ==
  /\ prevWordCount' = wordCount
  /\ prevDurationMs' = durationMs
  /\ wordCount' = w
  /\ durationMs' = DurationMs(w)
  /\ UNCHANGED notDurVars

(***************************************************************************)
(*                          Specifications                                 *)
(***************************************************************************)
Init == InitChat /\ InitDID /\ InitNet /\ InitCodec /\ InitCall /\ InitHeartbeat
          /\ InitBackoff /\ InitRetry /\ InitDuration

\* the session under every caller operation and every event
NextChat ==
  \/ CallerInit(MaxInits)
  \/ FetchOk
  \/ FetchFail(MaxAttempts)
  \/ TimeoutFire(MaxAttempts)
  \/ OrphanTimeoutFire(MaxAttempts)
  \/ \E s \in Sockets : SockOpen(s)
  \/ \E s \in Sockets : SockFail(s, MaxAttempts)
  \/ \E s \in Sockets : SockClosed(s, MaxAttempts)
  \/ BackoffEnd(MaxInits)
  \/ \E r \in Sockets : MicGranted(r)
  \/ \E r \in Sockets : MicDenied(r)
  \/ \E r \in Sockets : AudioFrame(r)
  \/ \E s \in Sockets, k \in MsgKinds : Message(s, k)
  \/ GoStale
  \/ HeartbeatTick(MaxAttempts)
  \/ \E m \in BOOLEAN : SetMuted(m)
  \/ Disconnect

SpecChat == Init /\ [][NextChat]_vars

\* one init() by the caller, after which no socket ever opens: the credential
\* fetch fails, the socket is closed before it opens, or the timeout fires
NextConnFail ==
  \/ (nInits = 0 /\ CallerInit(MaxFailInits))
  \/ FetchOk
  \/ FetchFail(MaxFailAttempts)
  \/ TimeoutFire(MaxFailAttempts)
  \/ OrphanTimeoutFire(MaxFailAttempts)
  \/ \E s \in Sockets : (sockState[s] = "connecting" /\ SockFail(s, MaxFailAttempts))
  \/ \E s \in Sockets : SockClosed(s, MaxFailAttempts)
  \/ BackoffEnd(MaxFailInits)

SpecConnFail == Init /\ [][NextConnFail]_vars

\* one init() by the caller, after which every credential fetch succeeds and
\* every socket stays in CONNECTING until the connection timeout fires
NextTimeouts ==
  \/ (nInits = 0 /\ CallerInit(MaxFailInits))
  \/ FetchOk
  \/ TimeoutFire(MaxFailAttempts)
  \/ OrphanTimeoutFire(MaxFailAttempts)
  \/ \E s \in Sockets : SockClosed(s, MaxFailAttempts)
  \/ BackoffEnd(MaxFailInits)

SpecTimeouts == Init /\ [][NextTimeouts]_vars

\* one init() by the caller, after which the first socket may open and every
\* later connection attempt fails
NextReopen ==
  \/ (nInits = 0 /\ CallerInit(MaxFailInits))
  \/ FetchOk
  \/ TimeoutFire(MaxFailAttempts)
  \/ OrphanTimeoutFire(MaxFailAttempts)
  \/ (Len(sockState) >= 1 /\ SockOpen(1))
  \/ \E s \in Sockets : SockFail(s, MaxFailAttempts)
  \/ \E s \in Sockets : SockClosed(s, MaxFailAttempts)
  \/ BackoffEnd(MaxFailInits)

SpecReopen == Init /\ [][NextReopen]_vars

\* the session under its caller operations and the events of its sockets, with
\* a microphone prompt that stays unanswered and timers that have not fired yet
NextSession ==
  \/ CallerInit(MaxInits)
  \/ FetchOk
  \/ \E s \in Sockets : SockOpen(s)
  \/ \E s \in Sockets : SockFail(s, MaxAttempts)
  \/ \E s \in Sockets : SockClosed(s, MaxAttempts)
  \/ BackoffEnd(MaxInits)
  \/ \E s \in Sockets, k \in MsgKinds : Message(s, k)
  \/ \E s \in Sockets, e \in ErrorShapes : ErrorEvent(s, e)
  \/ GoStale
  \/ \E t \in Tunings : UpdateAudioSettings(t)
  \/ SendTextMessage
  \/ Disconnect

SpecSession == Init /\ [][NextSession]_vars

\* the same, for a session the caller initialises once
NextOneSession ==
  \/ (nInits = 0 /\ CallerInit(MaxInits))
  \/ FetchOk
  \/ \E s \in Sockets : SockOpen(s)
  \/ \E s \in Sockets : SockFail(s, MaxAttempts)
  \/ \E s \in Sockets : SockClosed(s, MaxAttempts)
  \/ BackoffEnd(MaxInits)
  \/ \E s \in Sockets, k \in MsgKinds : Message(s, k)
  \/ \E s \in Sockets, e \in ErrorShapes : ErrorEvent(s, e)
  \/ GoStale
  \/ \E t \in Tunings : UpdateAudioSettings(t)
  \/ SendTextMessage
  \/ Disconnect

SpecOneSession == Init /\ [][NextOneSession]_vars

\* a session the caller initialises once, under the events of its sockets
NextEvents ==
  \/ (nInits = 0 /\ CallerInit(MaxInits))
  \/ FetchOk
  \/ \E s \in Sockets : SockOpen(s)
  \/ \E s \in Sockets : SockFail(s, MaxAttempts)
  \/ \E s \in Sockets : SockClosed(s, MaxAttempts)
  \/ BackoffEnd(MaxInits)
  \/ \E s \in Sockets, k \in MsgKinds : Message(s, k)
  \/ \E s \in Sockets : UnknownEvent(s)
  \/ GoStale
  \/ Disconnect

SpecEvents == Init /\ [][NextEvents]_vars

\* a session the caller initialises once, with its microphone: the prompt is
\* answered, frames are captured, the caller mutes and unmutes
NextCapture ==
  \/ (nInits = 0 /\ CallerInit(MaxInits))
  \/ FetchOk
  \/ \E s \in Sockets : SockOpen(s)
  \/ \E r \in Sockets : MicGranted(r)
  \/ \E r \in Sockets : MicDenied(r)
  \/ \E r \in Sockets : AudioFrame(r)
  \/ \E s \in Sockets, k \in MsgKinds : Message(s, k)
  \/ \E s \in Sockets : TranscriptionFailed(s)
  \/ GoStale
  \/ \E m \in BOOLEAN : SetMuted(m)
  \/ Disconnect

SpecCapture == Init /\ [][NextCapture]_vars

\* the speech dispatcher under every timing of its calls and waits
NextDID ==
  \/ Speak
  \/ \E c \in chains : BackendOk(c)
  \/ \E c \in chains, quota \in BOOLEAN : BackendError(c, quota)
  \/ \E c \in chains : BackendThrow(c)
  \/ \E c \in chains : DurationEnd(c)
  \/ \E c \in chains : DelayEnd(c)
  \/ DIDDisconnect
  \/ DIDInit

SpecDID == Init /\ [][NextDID]_vars

\* the steps the dispatcher takes by itself: a backend call is answered, a wait
\* ends
ChainStep ==
  \/ \E c \in chains : BackendOk(c)
  \/ \E c \in chains, quota \in BOOLEAN : BackendError(c, quota)
  \/ \E c \in chains : BackendThrow(c)
  \/ \E c \in chains : DurationEnd(c)
  \/ \E c \in chains : DelayEnd(c)

\* the speech dispatcher when every backend call is answered and every wait
\* ends; the caller need not call again
SpecDIDFair == Init /\ [][NextDID]_vars /\ WF_vars(ChainStep)

\* the network monitor under every report of the browser
NextNet ==
  \/ NetMount
  \/ UpdateNetworkInfo
  \/ \E cr \in ConnRtts, cd \in Downlinks, ce \in EffectiveTypes, m \in Latencies :
       LatencyMeasured(cr, cd, ce, m)
  \/ \E cr \in ConnRtts, cd \in Downlinks, ce \in EffectiveTypes :
       LatencyFailed(cr, cd, ce)
  \/ NetOffline
  \/ NetOnline

SpecNet == Init /\ [][NextNet]_vars

\* the codec on every block of the sample values
NextCodec ==
  \/ \E block \in SampleArrays : Capture(block)
  \/ Encode
  \/ Decode

SpecCodec == Init /\ [][NextCodec]_vars

\* the orchestrator under every timing of the avatar and of the recognition
NextCall ==
  \/ StartConversation
  \/ OnConnected
  \/ OnSpeakingStart
  \/ OnSpeakingEnd
  \/ Second
  \/ \E w \in Words : VoiceInput(w)
  \/ ResponseDone
  \/ EndConversation

SpecCall == Init /\ [][NextCall]_vars

\* the heartbeat under every timing of the inbound messages
NextHeartbeat ==
  \/ HbOnOpen
  \/ \E k \in InboundKinds : HbOnMessage(k)
  \/ HbSecond
  \/ HbTick
  \/ HbStop

SpecHeartbeat == Init /\ [][NextHeartbeat]_vars

\* the backoff waits under every value of Math.random()
NextBackoff ==
  \/ \E r \in 0..(RandomSteps - 1) : BackoffWait(r)
  \/ BackoffReset

SpecBackoff == Init /\ [][NextBackoff]_vars

\* the duration estimate on texts of every length
NextDuration ==
  \E w \in 0..MaxWords : EstimateDuration(w)

SpecDuration == Init /\ [][NextDuration]_vars

\* the steps of a retryWithBackoff call once it has started
RetryStep ==
  \/ FnResolves
  \/ \E r \in 0..(RandomSteps - 1) : FnRejects(r)
  \/ RetryWaitEnd

\* one call of retryWithBackoff, under every outcome of fn
NextRetry ==
  \/ \E args \in RetryArgs : RetryStart(args[1], args[2], args[3])
  \/ RetryStep

\* the promise of every fn call settles and every timer fires
SpecRetry == Init /\ [][NextRetry]_vars /\ WF_vars(RetryStep)

(***************************************************************************)
(*                     Properties of RealtimeChat                          *)
(***************************************************************************)
LiveSockets == {s \in Sockets : sockState[s] \in {"connecting", "open"}}

\* C1: at every moment at most one socket created by the session is open or
\* connecting.
C1_AtMostOneLiveSocket == Cardinality(LiveSockets) <= 1

\* C2: on every socket, no input_audio_buffer.append is sent before the
\* session.update has been sent on that same socket.
C2_ConfigBeforeAudio ==
  \A s \in Sockets :
    InLog(sentLog[s], "input_audio_buffer.append") => sentLog[s][1] = "session.update"

\* C3: after disconnect(), as long as init() is not called again (the flag
\* isIntentionalDisconnect stays set: only init() resets it), no step creates a
\* socket, creates a recorder or acquires the microphone, and the status reported
\* last stays 'disconnected'.
C3_QuietAfterDisconnect ==
  [][(isIntentionalDisconnect /\ isIntentionalDisconnect') =>
       /\ Len(sockState') = Len(sockState)
       /\ \A r \in Sockets : recState'[r] = "running" => recState[r] = "running"
       /\ \A r \in Sockets : recState'[r] = "starting" => recState[r] = "starting"
       /\ lastStatus' = "disconnected"]_vars

\* the connection attempts that have failed, when no socket ever opens: the
\* init() calls whose fetch failed or whose socket is no longer CONNECTING
FailedAttempts ==
  nInits - initsPending - Cardinality({s \in Sockets : sockState[s] = "connecting"})

\* C4: when no connection attempt succeeds, 'disconnected' is reported after
\* exactly 5 failed attempts, with exactly one onError call.
C4_FiveFailuresOneError ==
  lastStatus = "disconnected" => (FailedAttempts = 5 /\ errCount = 1)

\* C8: while the most recent setMuted call is setMuted(true), no step sends an
\* audio frame.
C8_MutedSendsNothing ==
  [][lastMuted = "true" => ~(\E r \in Sockets : AudioFrame(r))]_vars

\* a step reports 'reconnecting' exactly when attemptReconnect starts a backoff
\* wait, and 'connecting' exactly when init() is invoked
ReportsReconnecting == backoffsPending' = backoffsPending + 1
ReportsConnecting == nInits' = nInits + 1

\* C10: under consecutive socket-open timeouts the reported statuses alternate
\* 'connecting', 'reconnecting', ...: 'reconnecting' is reported only right
\* after 'connecting', 'connecting' only first or right after 'reconnecting',
\* and the final 'disconnected' comes with one onError call and is the last
\* status.
C10_StatusesAlternate ==
  [][/\ ReportsReconnecting => lastStatus = "connecting"
     /\ ReportsConnecting => lastStatus \in {"none", "reconnecting"}
     /\ lastStatus' = "disconnected" => errCount' = 1
     /\ lastStatus = "disconnected" => lastStatus' = "disconnected"]_vars

\* C12: a failure triggers reconnection once: the close event of a socket that
\* the reconnect logic closed itself neither raises the reconnect-attempt
\* counter nor starts another backoff-then-init chain.
C12_OneTriggerPerFailure ==
  [][(\E s \in Sockets : sockState[s] = "closing" /\ sockState'[s] = "closed") =>
       /\ reconnectAttempts' = reconnectAttempts
       /\ backoffsPending' = backoffsPending]_vars

\* C13: on each connection exactly one session.update is sent, in response to
\* the session.created of that connection: none before the event, one after.
C13_OneConfigPerConnection ==
  \A s \in Sockets : Len(sentConfig[s]) = IF created[s] THEN 1 ELSE 0

\* the session is connected: this.ws is an OPEN socket
Connected == ws # 0 /\ sockState[ws] = "open"

\* C14: updateAudioSettings(t) on a connected session sends a session.update
\* carrying t on the current socket, and leaves the socket as it is.
C14_UpdateResendsConfig ==
  [][\A t \in Tunings : (Connected /\ UpdateAudioSettings(t)) =>
       /\ sentConfig'[ws] = Append(sentConfig[ws], t)
       /\ ws' = ws
       /\ sockState' = sockState]_vars

\* C17: sendTextMessage without an open socket fails at once: nothing is sent,
\* no reconnect or retry is started, and socket, reconnect counter, timers and
\* mute flag are as before.
C17_TextFailsFast ==
  [][(SendTextMessage /\ ~Connected) =>
       /\ lastText' = "threw"
       /\ UNCHANGED <<sentLog, sentConfig, ws, sockState, reconnectAttempts,
                      backoffsPending, initsPending, nInits, connectionTimeout,
                      orphanTimeouts, pingInterval, isRecording, lastStatus,
                      errCount>>]_vars

\* C17, its case: sendTextMessage has thrown while this.ws is a socket that is
\* still connecting.
C17_Witness ==
  /\ lastText = "threw"
  /\ ws # 0
  /\ sockState[ws] = "connecting"

\* C18: an inbound 'error' event is reported through onError if and only if
\* its category is not 'invalid_request_error', whatever its payload is.
C18_ErrorsSurfaced ==
  [][\A s \in Sockets, e \in ErrorShapes : ErrorEvent(s, e) =>
       errCount' = IF e # "invalid_request_error"
                   THEN CountErr(errCount) ELSE errCount]_vars

\* C24: disconnect() leaves the session with the intentional-disconnect flag
\* set, no heartbeat timer and no connection-timeout timer armed, no recorder
\* and no socket held; a second call finds all of this and changes none of it.
C24_DisconnectLeavesNothing ==
  [][Disconnect =>
       /\ isIntentionalDisconnect'
       /\ ~pingInterval'
       /\ ~connectionTimeout'
       /\ orphanTimeouts' = 0
       /\ recorder' = 0
       /\ ws' = 0]_vars

\* C27: between two socket opens, or between the caller's init() and the first
\* open, attemptReconnect calls init() at most 5 times.
C27_AtMostFiveReinits == reinits <= maxReconnectAttempts

\* C28: the base delay before reconnect attempt n is 1000, 2000, 4000, 8000,
\* 10000 ms for n = 1..5, and the wait (delay plus jitter) differs from it by at
\* most 10%.
C28_BackoffDelays ==
  boAttempts \in 1..5 =>
    /\ delay = <<1000, 2000, 4000, 8000, 10000>>[boAttempts]
    /\ 10 * ((delay + jitter) - delay) <= delay
    /\ 10 * (delay - (delay + jitter)) <= delay

\* C28, its case: the fifth attempt waits the capped delay and a jitter of
\* nearly a tenth of it.
C28_Witness ==
  /\ boAttempts = 5
  /\ delay = 10000
  /\ jitter > 900

\* every init() so far has created a socket and every socket has opened
\* (onopen gives a socket its recorder): every connection timeout that is
\* still armed was armed for a connection that has opened
AllOpened ==
  /\ initsPending = 0
  /\ nInits = Len(sockState)
  /\ \A s \in Sockets : recState[s] # "none"

\* C29: the open of a socket cancels the connection timeout, resets the
\* reconnect counter, starts the heartbeat and starts capture; and a connection
\* timeout armed for a connection that has opened triggers no reconnect.
C29_OpenEndsTimeout ==
  [][/\ \A s \in Sockets : SockOpen(s) =>
          /\ ~connectionTimeout'
          /\ reconnectAttempts' = 0
          /\ pingInterval'
          /\ recorder' = s
     /\ ((TimeoutFire(MaxAttempts) \/ OrphanTimeoutFire(MaxAttempts)) /\ AllOpened) =>
          /\ reconnectAttempts' = reconnectAttempts
          /\ backoffsPending' = backoffsPending]_vars

\* the recorders that hold the microphone, and those still waiting for it
HoldingMic == {r \in Sockets : recState[r] = "running"}
AwaitingMic == {r \in Sockets : recState[r] = "starting"}

\* C30: at most one recorder holds the microphone, and when the session has no
\* recorder (stopRecording ran last) and no start() is still waiting for the
\* microphone, none holds it.
C30_OneRecorderAtMost ==
  /\ Cardinality(HoldingMic) <= 1
  /\ (recorder = 0 /\ AwaitingMic = {}) => HoldingMic = {}

\* C31: onError reports a connection failure only when the reconnect attempts
\* are exhausted (the counter has reached its maximum), and never for the
\* failure of an init() that an intentional disconnect() has superseded.
C31_ErrorOnlyWhenExhausted ==
  [][errCount' # errCount =>
       /\ reconnectAttempts' >= maxReconnectAttempts
       /\ ~isIntentionalDisconnect]_vars

\* what holds at every moment of a retryWithBackoff call
RetrySafe ==
  /\ calls <= maxRetries + 1
  /\ rtPc = "returned" => (returned = calls /\ lastError = calls - 1)
  /\ rtPc = "rejected" => (lastError = calls /\ calls = maxRetries + 1 /\ returned = 0)
  /\ rtPc = "waiting" =>
       /\ retryDelay = IF baseDelay * Pow2(attempt) < maxDelay
                       THEN baseDelay * Pow2(attempt) ELSE maxDelay
       /\ retryJitter >= 0
       /\ 10 * retryJitter <= retryDelay
       /\ <<maxRetries, baseDelay, maxDelay>> = <<3, 1000, 5000>> =>
            retryDelay = <<1000, 2000, 4000>>[attempt + 1]

RetryDone == rtPc \in {"returned", "rejected"}

\* C32: retryWithBackoff calls fn at most maxRetries+1 times, returns the
\* result of the first call that succeeds, waits min(baseDelay*2^k, maxDelay)
\* plus at most 10% before retry k+1 (1000, 2000, 4000 ms for the credential
\* fetch), rejects after the last failure with the error of the last call, and
\* always ends.
C32_RetryTerminates ==
  /\ []RetrySafe
  /\ (rtPc # "idle") ~> RetryDone

\* C32, its case: the credential fetch has failed four times, the last wait
\* was of 4000 ms, and the call has rejected with the fourth error.
C32_Witness ==
  /\ rtPc = "rejected"
  /\ <<maxRetries, baseDelay, maxDelay>> = <<3, 1000, 5000>>
  /\ calls = 4
  /\ lastError = 4
  /\ retryDelay = 4000

\* 'disconnected' has been reported because the reconnect attempts are used up
Exhausted == lastStatus = "disconnected" /\ reconnectAttempts >= maxReconnectAttempts

\* C36: once 'disconnected' is reported on exhaustion, and the caller does not
\* call init() again, no step reports another status, creates a socket, starts
\* a recorder or calls init().
C36_ExhaustionIsTerminal ==
  [][Exhausted =>
       /\ lastStatus' = "disconnected"
       /\ Len(sockState') = Len(sockState)
       /\ nInits' = nInits
       /\ \A r \in Sockets : recState'[r] = "starting" => recState[r] = "starting"]_vars

\* C38: setMuted(m) sets whether captured frames are transmitted and nothing
\* else: recorder and microphone, socket, heartbeat, connection timeout,
\* reconnect counter and status stay as they are; setMuted(false) after
\* setMuted(true) on a connected session makes frames be transmitted again.
C38_MuteOnlyGatesFrames ==
  [][\A m \in BOOLEAN : SetMuted(m) =>
       /\ isRecording' = ~m
       /\ UNCHANGED <<recorder, recState, ws, sockState, pingInterval,
                      connectionTimeout, orphanTimeouts, reconnectAttempts,
                      backoffsPending, initsPending, nInits, lastStatus, errCount,
                      sentLog>>
       /\ (~m /\ lastMuted = "true" /\ Connected) => FrameIsSent']_vars

\* C38, its case: the session is muted while its socket is open and its
\* recorder holds the microphone, and frames had been sent before.
C38_Witness ==
  /\ lastMuted = "true"
  /\ ~isRecording
  /\ Connected
  /\ recorder # 0
  /\ recState[recorder] = "running"
  /\ InLog(sentLog[ws], "input_audio_buffer.append")

\* C39: an inbound transcription-failure event reports no error and no
\* status, starts no reconnect and closes no socket, and leaves the capture as
\* it is: if frames were being sent they still are.
C39_TranscriptionFailureNotFatal ==
  [][\A s \in Sockets : TranscriptionFailed(s) =>
       /\ UNCHANGED <<errCount, lastStatus, reconnectAttempts, backoffsPending,
                      initsPending, nInits, ws, sockState, recorder, recState,
                      isRecording, pingInterval, sentLog>>
       /\ FrameIsSent => FrameIsSent']_vars

\* C39, its case: a transcription-failure event has been handled on the
\* current socket, and the session is connected and transmitting frames.
C39_Witness ==
  /\ transcriptionFailed
  /\ FrameIsSent
  /\ recorder # 0
  /\ recState[recorder] = "running"
  /\ InLog(sentLog[ws], "input_audio_buffer.append")
  /\ lastStatus = "connected"
  /\ errCount = 0

\* C26: an inbound event of a kind the session does not handle sends nothing,
\* reports no status and no error, and starts no reconnect; it updates the
\* last-activity time and is passed to onMessage, and that is all.
C26_UnknownKindIgnored ==
  [][\A s \in Sockets : UnknownEvent(s) =>
       /\ ~stale'
       /\ passedThrough'
       /\ UNCHANGED <<sentLog, sentConfig, lastStatus, errCount, reconnectAttempts,
                      backoffsPending, initsPending, nInits, ws, sockState,
                      recorder, isRecording, pingInterval>>]_vars

\* C26, its case: a connected session has been given an event of an unknown
\* kind after its session was configured.
C26_Witness ==
  /\ passedThrough
  /\ Connected
  /\ created[ws]
  /\ lastStatus = "connected"

\* C25: a heartbeat tick calls attemptReconnect exactly when more than 30 s
\* have passed since the last inbound message (or the open), and every inbound
\* message, of whatever kind, sets that time back to zero.
C25_StaleAfterThirtySeconds ==
  [][/\ HbTick => (lastTick' = "attemptReconnect" <=> sinceActivity > 30)
     /\ \A k \in InboundKinds : HbOnMessage(k) => sinceActivity' = 0]_vars

\* C25, its case: a tick has found the last message 31 s old and reconnected.
C25_Witness ==
  /\ lastTick = "attemptReconnect"
  /\ sinceActivity = 31
  /\ sinceTick = 0

(***************************************************************************)
(*                      Properties of DIDClient                            *)
(***************************************************************************)
\* C5: at most one utterance is in flight: between the backend 'speak' call for
\* a text and the speaking-end signal for it, no other text is sent.
C5_OneInFlight == Cardinality(inFlight) <= 1

\* C6: of two accepted speak() calls, the backend receives the text of the
\* earlier call first.
C6_NeverReordered ==
  \A i, j \in 1..Len(backendLog) :
    (i < j /\ result[backendLog[i]] = "true" /\ result[backendLog[j]] = "true")
      => backendLog[i] < backendLog[j]

\* the run so far is one of speak() calls issued while an utterance was being
\* spoken (but for the first), on a client never disconnected, with a backend
\* that accepted every utterance
IssuedWhileSpeaking == whileSpeaking /\ ~anyFail /\ ~everDisc

\* C7: texts issued while an utterance is being spoken reach the backend in
\* the order of their calls, each exactly once, each only after the
\* speaking-end of the one before, and none is left behind.
C7_QueuedInOrder ==
  IssuedWhileSpeaking =>
    /\ \A i \in 1..Len(backendLog) : backendLog[i] = i
    /\ Cardinality(inFlight) <= 1
    /\ Len(backendLog) + Len(speakQueue) + Cardinality({c \in chains : c.pc = "delay"}) = nSpeaks

\* C7, its case: a first utterance and three texts issued while speaking have
\* all been sent to the backend and spoken.
C7_Witness ==
  /\ IssuedWhileSpeaking
  /\ Len(backendLog) >= 4
  /\ chains = {}

\* C9: once speech is disabled it stays disabled, the backend receives no
\* further 'speak' call, the queue is left unchanged and every speak() call
\* returns false.
C9_DisabledIsFinal ==
  [][speechDisabled =>
       /\ speechDisabled'
       /\ backendLog' = backendLog
       /\ speakQueue' = speakQueue
       /\ nSpeaks' # nSpeaks => result'[nSpeaks'] = "false"]_vars

\* C11: speak("Hello") on an idle connected client and speak("World") while
\* "Hello" is being spoken (texts 1 and 2, no backend failure, no disconnect):
\* the backend receives text 1 then text 2 and nothing else; the call for text
\* 2 is made by the step that ends the 500 ms delay, after the speaking-end of
\* text 1; when all is done the backend has received exactly the two.
C11_HelloThenWorld ==
  [][(IssuedWhileSpeaking' /\ nSpeaks' <= 2) =>
       /\ backendLog' \in {<<>>, <<1>>, <<1, 2>>}
       /\ (backendLog' # backendLog /\ Len(backendLog') = 2) =>
            /\ [text |-> 2, pc |-> "delay"] \in chains
            /\ inFlight = {}
            /\ ~isSpeaking
       /\ (nSpeaks' = 2 /\ chains' = {}) => backendLog' = <<1, 2>>]_vars

\* C11, its case: both texts have been sent and spoken.
C11_Witness ==
  /\ IssuedWhileSpeaking
  /\ nSpeaks = 2
  /\ backendLog = <<1, 2>>
  /\ chains = {}
  /\ speakQueue = <<>>

\* C34: every text whose speak() call returned true is eventually sent to the
\* backend, unless the client is disconnected or speech is disabled, also after
\* a backend call for an earlier text has failed or thrown.
C34_AcceptedIsSent ==
  \A t \in 1..MaxSpeaks :
    (t <= nSpeaks /\ result[t] = "true")
      ~> (InLog(backendLog, t) \/ everDisc \/ speechDisabled)

\* a step calls onSpeakingStart exactly when processSpeak passes its guard and
\* calls the backend, and onSpeakingEnd exactly when a text leaves inFlight
SignalsStart == Len(backendLog') = Len(backendLog) + 1
SignalsEnd == inFlight' # inFlight /\ inFlight' \subseteq inFlight

\* C35: speaking-start and speaking-end alternate, beginning with
\* speaking-start: a start is signalled only when every earlier start has had
\* its end, and an end only when exactly one start awaits it.
C35_SignalsAlternate ==
  [][/\ SignalsStart => inFlight = {}
     /\ SignalsEnd => Cardinality(inFlight) = 1]_vars

\* C40: the wait for a text of w words is clamp(w*60000/170 + 800, 1500,
\* 20000) ms (here times 17): at least 1500 ms, at most 20000 ms, 1500 ms for
\* one word, 4329 7/17 ms for ten, and not shorter for a text of more words.
C40_DurationClamped ==
  wordCount >= 0 =>
    /\ durationMs >= 1500 * 17
    /\ durationMs <= 20000 * 17
    /\ durationMs = IF wordCount * 60000 + 800 * 170 < 1500 * 170 THEN 1500 * 17
                    ELSE IF wordCount * 60000 + 800 * 170 > 20000 * 170 THEN 20000 * 17
                    ELSE (wordCount * 60000 + 800 * 170) \div 10
    /\ wordCount = 1 => durationMs = 25500
    /\ wordCount = 10 => durationMs = 73600
    /\ (prevWordCount >= 0 /\ wordCount >= prevWordCount) => durationMs >= prevDurationMs

\* C40, its case: a text long enough for the ceiling follows one short enough
\* for the floor.
C40_Witness ==
  /\ prevWordCount = 1
  /\ prevDurationMs = 1500 * 17
  /\ wordCount = 60
  /\ durationMs = 20000 * 17

\* C15: after DIDClient.disconnect() the speech queue is empty.
C15_DisconnectClearsQueue ==
  [][(connected /\ ~connected') => speakQueue' = <<>>]_vars

\* C16: a speak() call on a connected client returns false only if speech is
\* disabled when it returns: a call that went to the backend and comes back
\* false with nothing queued behind it (so that it returns in that very step)
\* leaves speech disabled.
C16_FalseMeansDisabled ==
  [][\A t \in 1..Len(result) :
       (result[t] = "pending" /\ result'[t] = "false" /\ speakQueue = <<>>)
         => speechDisabled']_vars

(***************************************************************************)
(*                   Properties of useNetworkQuality                       *)
(***************************************************************************)
\* a step that ends an updateNetworkInfo(): determineQuality is called and its
\* result stored
Classifies == probesPending' = probesPending - 1

\* C19: a classification gives 'offline' if and only if the network is
\* reported down, whatever rtt, downlink and effectiveType are; rtt 50,
\* downlink 10 Mb/s and '4g' give 'excellent' when online and 'offline' when
\* not; and the report of the network going down sets 'offline'.
C19_OfflineIffDown ==
  [][/\ Classifies =>
          /\ netInfo'.quality = "offline" <=> ~online
          /\ (netInfo'.rtt = 50 /\ netInfo'.downlink = 100
                 /\ netInfo'.effectiveType = "4g") =>
               netInfo'.quality = IF online THEN "excellent" ELSE "offline"
     /\ (mounted /\ online /\ ~online') => netInfo'.quality = "offline"]_vars

\* C19, its case: rtt 50, downlink 10 Mb/s and '4g' have been classified
\* while online.
C19_Witness ==
  netInfo = [quality |-> "excellent", effectiveType |-> "4g", downlink |-> 100,
             rtt |-> 50, isOnline |-> TRUE]

\* the ordered table of the classification: rule i applies to an input
RuleApplies(i, rtt, downlink, effectiveType) ==
  CASE i = 1 -> rtt < 100 /\ downlink > 50
    [] i = 2 -> rtt < 300 /\ downlink > 20
    [] i = 3 -> rtt < 600 /\ downlink > 5
    [] i = 4 -> effectiveType = "4g" /\ rtt < 200
    [] i = 5 -> effectiveType = "3g"
    [] i = 6 -> effectiveType \in {"2g", "slow-2g"}
    [] OTHER -> TRUE

RuleTier == <<"excellent", "good", "fair", "good", "fair", "poor", "poor">>

FirstRule(rtt, downlink, effectiveType) ==
  CHOOSE i \in 1..7 :
    /\ RuleApplies(i, rtt, downlink, effectiveType)
    /\ \A j \in 1..(i - 1) : ~RuleApplies(j, rtt, downlink, effectiveType)

\* C20: for every online input the classification is the tier of the first
\* rule of the ordered table that applies.
C20_FirstMatchingRule ==
  [][(Classifies /\ online) =>
       netInfo'.quality =
         RuleTier[FirstRule(netInfo'.rtt, netInfo'.downlink, netInfo'.effectiveType)]]_vars

\* C20, its case: an input that no threshold rule accepts (downlink 0.5 Mb/s)
\* has been classified by its connection type, '4g' with rtt below 200.
C20_Witness ==
  netInfo = [quality |-> "good", effectiveType |-> "4g", downlink |-> 5,
             rtt |-> 199, isOnline |-> TRUE]

\* C33: when the latency probe fails while the network is up, the latency is
\* taken to be the cap of 5000 ms and the tier is 'poor', whatever downlink and
\* effectiveType the browser reports.
C33_ProbeFailureIsPoor ==
  [][\A cr \in ConnRtts, cd \in Downlinks, ce \in EffectiveTypes :
       (LatencyFailed(cr, cd, ce) /\ online) =>
         /\ netInfo'.rtt = 5000
         /\ netInfo'.quality = "poor"]_vars

\* the tier order excellent > good > fair > poor > offline, as ranks
TierRank(q) ==
  CASE q = "excellent" -> 4 [] q = "good" -> 3 [] q = "fair" -> 2
    [] q = "poor" -> 1 [] OTHER -> 0

\* the rtt values and the downlinks a classification can be given
RttValues == (ConnRtts \ {0}) \cup Latencies \cup {5000}
DownlinkValues == Downlinks \ {0}

\* C37: with effectiveType and online status as they are, a higher downlink
\* (same rtt) or a lower rtt (same downlink) than the ones just classified
\* never gives a worse tier.
C37_MonotoneInMetrics ==
  [][(Classifies /\ online) =>
       /\ \A d \in DownlinkValues :
            d >= netInfo'.downlink =>
              TierRank(DetermineQuality(netInfo'.rtt, d, netInfo'.effectiveType, TRUE))
                >= TierRank(netInfo'.quality)
       /\ \A r \in RttValues :
            r <= netInfo'.rtt =>
              TierRank(DetermineQuality(r, netInfo'.downlink, netInfo'.effectiveType, TRUE))
                >= TierRank(netInfo'.quality)]_vars

\* C21: the tuning of the current tier is at most, field by field, the tuning
\* of every tier that is not better, and at least that of every tier that is
\* not worse; its bufferSize is 4096 or 8192.
C21_TuningMonotone ==
  LET a == GetOptimalAudioSettings(netInfo.quality)
  IN  /\ a.bufferSize \in {4096, 8192}
      /\ \A q \in Tiers :
           LET b == GetOptimalAudioSettings(q)
           IN  /\ TierRank(netInfo.quality) >= TierRank(q) =>
                    /\ a.bufferSize <= b.bufferSize
                    /\ a.silenceDuration <= b.silenceDuration
                    /\ a.prefixPadding <= b.prefixPadding
                    /\ a.threshold <= b.threshold
               /\ TierRank(q) >= TierRank(netInfo.quality) =>
                    /\ b.bufferSize <= a.bufferSize
                    /\ b.silenceDuration <= a.silenceDuration
                    /\ b.prefixPadding <= a.prefixPadding
                    /\ b.threshold <= a.threshold

\* C21, its case: the monitor has classified the network as 'excellent', the
\* tier whose tuning must be the smallest.
C21_Witness ==
  /\ probesPending = 0
  /\ netInfo.quality = "excellent"
  /\ netInfo.rtt = 99

(***************************************************************************)
(*                       Properties of the codec                           *)
(***************************************************************************)
\* the k-th sample of a byte string read as signed 16-bit PCM, low byte first
Pcm16At(bytes, k) ==
  LET u == bytes[2 * k - 1] + 256 * bytes[2 * k]
  IN  IF u >= 32768 THEN u - 65536 ELSE u

Abs(x) == IF x < 0 THEN 0 - x ELSE x

\* C22: a decoded block has two bytes per sample; each sample in [-1,1] is
\* reconstructed, as pcm / 32768, within 1/32768 (2 units of the sample
\* grid); a sample above 1 is encoded as 32767 and one below -1 as -32768.
C22_RoundTripWithinOneStep ==
  codecPc = "decoded" =>
    /\ Len(decoded) = 2 * Len(samples)
    /\ \A k \in 1..Len(samples) :
         /\ Abs(samples[k]) <= SampleScale =>
              Abs(samples[k] - 2 * Pcm16At(decoded, k)) <= 2
         /\ samples[k] > SampleScale => Pcm16At(decoded, k) = 32767
         /\ samples[k] < 0 - SampleScale => Pcm16At(decoded, k) = -32768

(***************************************************************************)
(*                    Properties of the orchestrator                       *)
(***************************************************************************)
\* C23: a voice input of at most 2 words recognised 3 s after the avatar
\* stopped speaking is discarded: no user turn is logged and no reply is
\* requested. (The same input after 10 s is accepted.)
C23_ShortEchoDiscarded ==
  [][\A w \in {1, 2} :
       (VoiceInput(w) /\ ~avatarSpeaking /\ quiet = 3) =>
         /\ userTurns' = userTurns
         /\ callProcessing' = callProcessing]_vars

====
